---- MODULE Spec2Model ----
(***************************************************************************)
(* Model of the watertap-reflo trough surrogate (TroughSurrogateData) and  *)
(* of the LT-MED surrogate costing (build_lt_med_surrogate_cost_param_block*)
(* and cost_lt_med_surrogate).                                             *)
(*                                                                         *)
(* Four specifications share the variables; each one drives its own part   *)
(* of the state and leaves the rest untouched:                             *)
(*   SpecScaling  calculate_scaling_factors and user set_scaling_factor    *)
(*   SpecSampler  _get_surrogate_data (sample and split)                   *)
(*   SpecTrough   build, _create_rbf_surrogate, _plot_training_validation  *)
(*   SpecCost     the LT-MED parameter block and the unit costing blocks   *)
(*                                                                         *)
(* Numbers: scaling factors are kept in units of 1e-4, parameter values in *)
(* units of 1e-3, fractions in percent, dimension exponents in units of    *)
(* 1e-3, so that every quantity the code uses is an exact integer here.    *)
(***************************************************************************)
EXTENDS Integers, Sequences, FiniteSets, TLC

VARIABLES
    \* ---- scaling (trough_surrogate.py:48, 118-144)
    scaling_factor,     \* the Suffix: a map from variable name to factor
    sfLast,             \* the last scaling operation: "none", "set", "calc"
    \* ---- sampler (trough_surrogate.py:112-116, 202-209)
    rng,                \* state of numpy's global random generator
    cutRule,            \* how the split library turns f*N into a row count
    n_samples,          \* self.n_samples
    training_fraction,  \* self.training_fraction, in percent
    data,               \* self.data: the sampled rows, in drawn order
    data_training,      \* self.data_training
    data_validation,    \* self.data_validation
    runLog,             \* inputs and results of the last two sampler calls
    \* ---- trough block (trough_surrogate.py:45-116, 150-259)
    pc,                 \* position of the running operation
    stdout,             \* sys.stdout
    oldstdout,          \* the stream saved by the running / last operation
    artifact,           \* state of trough_surrogate.json on disk
    constraints,        \* constraints present on the block
    surrogate,          \* self.surrogate
    rbf_surr,           \* self.rbf_surr
    solutionPickle,     \* whether ./solution.pickle exists
    savedFiles,         \* files written by save_to_file
    rbfArgs,            \* arguments of the running _create_rbf_surrogate
    evaluated,          \* surrogate evaluated by the last plot call
    plotArgs,           \* arguments of the last plot call
    outcome,            \* the last finished operation and how it ended
    \* ---- LT-MED costing (lt_med_surrogate.py)
    params,             \* the parameter block: name -> Var record
    paramPc,            \* Vars declared so far; one more after fix_all_vars
    overridden,         \* parameters a flowsheet re-fixed to its own value
    unitVars,           \* unit -> name -> Var record of the costing block
    unitCons,           \* unit -> name -> constraint (lhs and term dimensions)
    flows               \* registered utility flows: <<unit, flow name>>

scalingVars == <<scaling_factor, sfLast>>
samplerVars == <<rng, cutRule, n_samples, training_fraction, data,
                 data_training, data_validation, runLog>>
troughVars  == <<pc, stdout, oldstdout, artifact, constraints, surrogate,
                 rbf_surr, solutionPickle, savedFiles, rbfArgs, evaluated,
                 plotArgs, outcome>>
costVars    == <<params, paramPc, overridden, unitVars,
                 unitCons, flows>>
vars == <<scalingVars, samplerVars, troughVars, costVars>>

\* The empty map.
Empty == [x \in {} |-> 0]

\* d with key k bound to value v.
Put(d, k, v) == [x \in DOMAIN d \cup {k} |-> IF x = k THEN v ELSE d[x]]

(***************************************************************************)
(* Scaling factors                                                         *)
(***************************************************************************)

\* The six variables calculate_scaling_factors visits, in its order.
ScaledVars == <<"hours_storage", "heat_load", "heat_annual", "heat",
                "electricity_annual", "electricity">>

\* The default of each variable, in units of 1e-4.
DefaultFactor(v) ==
    CASE v = "hours_storage"      -> 10000
      [] v = "heat_load"          -> 100
      [] v = "heat_annual"        -> 1
      [] v = "heat"               -> 1
      [] v = "electricity_annual" -> 10
      [] v = "electricity"        -> 10

\* Factors a user may set, in units of 1e-4 (one of them is a default).
UserFactors == {1, 50}

\* iscale.get_scaling_factor(var, default=d): the Suffix entry, or d.
GetScalingFactor(sf, v, d) == IF v \in DOMAIN sf THEN sf[v] ELSE d

\* iscale.set_scaling_factor(var, x).
SetScalingFactor(sf, v, x) == Put(sf, v, x)

\* A variant that assigns the default whether or not a factor is present.
SetDefaultAlways(sf, v) == SetScalingFactor(sf, v, DefaultFactor(v))

\* One "if get_scaling_factor(v) is None: set_scaling_factor(v, default)".
SetDefaultIfMissing(sf, v) ==
    IF v \notin DOMAIN sf
    THEN SetScalingFactor(sf, v, GetScalingFactor(sf, v, DefaultFactor(v)))
    ELSE sf

RECURSIVE ApplyDefaults(_, _)
ApplyDefaults(sf, k) ==
    IF k > Len(ScaledVars) THEN sf
    ELSE ApplyDefaults(SetDefaultIfMissing(sf, ScaledVars[k]), k + 1)

ScalingInit ==
    /\ scaling_factor = Empty
    /\ sfLast = "none"

\* A user (or an outer flowsheet) sets a factor on one of the variables.
UserSetScalingFactor ==
    \E k \in 1..Len(ScaledVars), x \in UserFactors :
       /\ scaling_factor' = SetScalingFactor(scaling_factor, ScaledVars[k], x)
       /\ sfLast' = "set"

\* TroughSurrogateData.calculate_scaling_factors.
CalculateScalingFactors ==
    /\ scaling_factor' = ApplyDefaults(scaling_factor, 1)
    /\ sfLast' = "calc"

(***************************************************************************)
(* Dataset Sampler: _get_surrogate_data                                    *)
(***************************************************************************)

\* Rows of data/trough_data.pkl (the rows are numbered 1..DatasetRows).
DatasetRows == 120

\* Number of states of the global random generator that are told apart.
RngPeriod == 3

\* self.n_samples and self.training_fraction (percent) as build leaves them.
DefaultNSamples == 100
DefaultTrainingFraction == 80

\* Values a caller assigns to self.n_samples / self.training_fraction.
NChoices == {5, 10, DefaultNSamples}
FChoices == {50, 75, DefaultTrainingFraction}

\* pd.read_pickle(self.dataset_filename): the same table on every call.
ReadPickle == [i \in 1..DatasetRows |-> i]

\* pickle_df.sample(n=n) with no random_state: n distinct rows chosen by the
\* global generator, whose state is r when the call is made.
Sample(df, n, r) ==
    LET rows == Len(df)
    IN  [i \in 1..n |-> df[((r + i - 1) % rows) + 1]]

\* The global generator after a draw.
Advance(r) == (r + 1) % RngPeriod

\* dataframe.sample(frac=1, random_state=seed) inside the split: a permutation
\* of the rows that depends on the seed and the length only.
Shuffled(s, seed) ==
    LET n == Len(s)
    IN  [i \in 1..n |-> s[((i + seed) % n) + 1]]

\* f percent of n rows under the two usual conventions.
Truncated(f, n) == (f * n) \div 100
RoundedHalfEven(f, n) ==
    LET q == (f * n) \div 100
        r == (f * n) % 100
    IN  IF r > 50 \/ (r = 50 /\ q % 2 = 1) THEN q + 1 ELSE q
TrainCount(f, n, rule) ==
    IF rule = "truncate" THEN Truncated(f, n) ELSE RoundedHalfEven(f, n)

\* split_training_validation(data, f, seed): shuffle, then cut.
SplitTrainingValidation(s, f, seed, rule) ==
    LET sh == Shuffled(s, seed)
        k  == TrainCount(f, Len(s), rule)
    IN  <<SubSeq(sh, 1, k), SubSeq(sh, k + 1, Len(s))>>

SamplerInit ==
    /\ rng \in 0..(RngPeriod - 1)
    /\ cutRule \in {"truncate", "round"}
    /\ n_samples = DefaultNSamples
    /\ training_fraction = DefaultTrainingFraction
    /\ data = <<>>
    /\ data_training = <<>>
    /\ data_validation = <<>>
    /\ runLog = <<>>

\* The log with one more call, keeping the last two.
Logged(log, run) == IF Len(log) < 2 THEN Append(log, run)
                    ELSE <<log[2], run>>

\* TroughSurrogateData._get_surrogate_data: read the table, sample it with
\* the global generator, split the sample with seed = len(sample).  (With
\* return_data the two sets are also returned.)  sample() raises when
\* n_samples exceeds the table.
GetSurrogateData ==
    LET df     == ReadPickle
        sample == Sample(df, n_samples, rng)
        split  == SplitTrainingValidation(sample, training_fraction,
                                          Len(sample), cutRule)
    IN  /\ n_samples <= Len(df)
        /\ data' = sample
        /\ rng' = Advance(rng)
        /\ data_training' = split[1]
        /\ data_validation' = split[2]
        /\ runLog' = Logged(runLog, [n |-> n_samples, f |-> training_fraction,
                                     data |-> sample, training |-> split[1],
                                     validation |-> split[2]])
        /\ UNCHANGED <<cutRule, n_samples, training_fraction>>

\* A caller assigns self.n_samples.
SetNSamples ==
    \E n \in NChoices :
       /\ n # n_samples
       /\ n_samples' = n
       /\ UNCHANGED <<rng, cutRule, training_fraction, data, data_training,
                      data_validation, runLog>>

\* A caller assigns self.training_fraction.
SetTrainingFraction ==
    \E f \in FChoices :
       /\ f # training_fraction
       /\ training_fraction' = f
       /\ UNCHANGED <<rng, cutRule, n_samples, data, data_training,
                      data_validation, runLog>>

(***************************************************************************)
(* TroughSurrogate: build, _create_rbf_surrogate, _plot_training_validation*)
(***************************************************************************)

\* An ordering of build that adds the annualization constraints before the
\* artifact is loaded.
BuildProgramLoadLate ==
    <<"redirect", "heat_constraint", "electricity_constraint", "load",
      "build_model", "restore", "set_defaults">>

\* The statements of build that follow the Var declarations, in order.
BuildProgram ==
    <<"redirect", "load", "build_model", "heat_constraint",
      "electricity_constraint", "restore", "set_defaults">>

\* The statements of _create_rbf_surrogate, in order.
RbfProgram ==
    <<"get_data", "redirect", "train", "remove", "make_surrogate", "save",
      "restore">>

\* The training table a caller passes to _create_rbf_surrogate.
GivenTraining == <<1, 2, 3>>

Idle == [op |-> "idle", at |-> 0]
At(op, stmt, prog) ==
    /\ pc.op = op
    /\ pc.at \in 1..Len(prog)
    /\ prog[pc.at] = stmt

\* The position after the current statement: the next one, or idle when the
\* operation returns.
Step(prog) ==
    IF pc.at < Len(prog) THEN [pc EXCEPT !.at = @ + 1] ELSE Idle

\* outcome after the current statement: set when the operation returns.
Returned(prog) ==
    IF pc.at < Len(prog) THEN outcome
    ELSE [op |-> pc.op, result |-> "returned"]

Raise(what) == [op |-> pc.op, result |-> what]

TroughInit ==
    /\ pc = [op |-> "new", at |-> 0]
    /\ stdout \in {"console", "logfile"}
    /\ oldstdout = "unset"
    /\ artifact \in {"valid", "malformed", "missing"}
    /\ constraints = {}
    /\ surrogate = "unset"
    /\ rbf_surr = "unset"
    /\ solutionPickle \in BOOLEAN
    /\ savedFiles = {}
    /\ rbfArgs = [data_training |-> "None", output_filename |-> "None",
                  found |-> "unset"]
    /\ evaluated = "none"
    /\ plotArgs = [surrogate |-> "None", surrogate_filename |-> "None"]
    /\ outcome = [op |-> "none", result |-> "none"]
    /\ rng \in 0..(RngPeriod - 1)
    /\ cutRule \in {"truncate", "round"}
    /\ n_samples = 0
    /\ training_fraction = 0
    /\ data = <<>>
    /\ data_training = <<>>
    /\ data_validation = <<>>
    /\ runLog = <<>>

\* build, lines 46-75: the block's Vars are declared; nothing here can fail.
BuildStart ==
    /\ pc.op = "new"
    /\ pc' = [op |-> "build", at |-> 1]
    /\ UNCHANGED <<stdout, oldstdout, artifact, constraints, surrogate,
                   rbf_surr, solutionPickle, savedFiles, rbfArgs, evaluated,
                   plotArgs, outcome>>
    /\ UNCHANGED samplerVars

\* stream = StringIO(); oldstdout = sys.stdout; sys.stdout = stream
\* (build 77-79, _create_rbf_surrogate 158-160).
Redirect ==
    /\ \/ At("build", "redirect", BuildProgram) /\ pc' = Step(BuildProgram)
       \/ At("rbf", "redirect", RbfProgram) /\ pc' = Step(RbfProgram)
    /\ oldstdout' = stdout
    /\ stdout' = "StringIO"
    /\ UNCHANGED <<artifact, constraints, surrogate, rbf_surr, solutionPickle,
                   savedFiles, rbfArgs, evaluated, plotArgs, outcome>>
    /\ UNCHANGED samplerVars

\* sys.stdout = oldstdout (build 110, _create_rbf_surrogate 200).
Restore ==
    /\ \/ /\ At("build", "restore", BuildProgram)
          /\ pc' = Step(BuildProgram)
          /\ outcome' = Returned(BuildProgram)
       \/ /\ At("rbf", "restore", RbfProgram)
          /\ pc' = Step(RbfProgram)
          /\ outcome' = Returned(RbfProgram)
    /\ stdout' = oldstdout
    /\ UNCHANGED <<oldstdout, artifact, constraints, surrogate, rbf_surr,
                   solutionPickle, savedFiles, rbfArgs, evaluated, plotArgs>>
    /\ UNCHANGED samplerVars

\* self.surrogate = PysmoSurrogate.load_from_file(self.surrogate_file):
\* raises when the file is missing or malformed, and build ends there.
BuildLoad ==
    /\ At("build", "load", BuildProgram)
    /\ IF artifact = "valid"
       THEN /\ surrogate' = "artifact"
            /\ pc' = Step(BuildProgram)
            /\ outcome' = Returned(BuildProgram)
       ELSE /\ pc' = [op |-> "failed", at |-> 0]
            /\ outcome' = Raise("load failed")
            /\ UNCHANGED surrogate
    /\ UNCHANGED <<stdout, oldstdout, artifact, constraints, rbf_surr,
                   solutionPickle, savedFiles, rbfArgs, evaluated, plotArgs>>
    /\ UNCHANGED samplerVars

\* The constraint a statement of build adds to the block.
Adds(stmt) ==
    CASE stmt = "build_model"            -> {"surrogate_outputs"}
      [] stmt = "heat_constraint"        -> {"heat_constraint"}
      [] stmt = "electricity_constraint" -> {"electricity_constraint"}
      [] OTHER                           -> {}

\* surrogate_blk.build_model(self.surrogate, ...), heat_constraint and
\* electricity_constraint: each adds its equality constraint.  build_model
\* needs the loaded surrogate.
BuildAddConstraint ==
    /\ pc.op = "build"
    /\ pc.at \in 1..Len(BuildProgram)
    /\ Adds(BuildProgram[pc.at]) # {}
    /\ IF BuildProgram[pc.at] = "build_model" /\ surrogate = "unset"
       THEN /\ pc' = [op |-> "failed", at |-> 0]
            /\ outcome' = Raise("no surrogate")
            /\ UNCHANGED constraints
       ELSE /\ constraints' = constraints \cup Adds(BuildProgram[pc.at])
            /\ pc' = Step(BuildProgram)
            /\ outcome' = Returned(BuildProgram)
    /\ UNCHANGED <<stdout, oldstdout, artifact, surrogate, rbf_surr,
                   solutionPickle, savedFiles, rbfArgs, evaluated, plotArgs>>
    /\ UNCHANGED samplerVars

\* self.dataset_filename, self.n_samples = 100, self.training_fraction = 0.8.
BuildSetDefaults ==
    /\ At("build", "set_defaults", BuildProgram)
    /\ n_samples' = DefaultNSamples
    /\ training_fraction' = DefaultTrainingFraction
    /\ pc' = Step(BuildProgram)
    /\ outcome' = Returned(BuildProgram)
    /\ UNCHANGED <<stdout, oldstdout, artifact, constraints, surrogate,
                   rbf_surr, solutionPickle, savedFiles, rbfArgs, evaluated,
                   plotArgs>>
    /\ UNCHANGED <<rng, cutRule, data, data_training, data_validation, runLog>>

\* A call _create_rbf_surrogate(data_training, output_filename) on a built
\* block.
CreateRbfSurrogate ==
    /\ pc = Idle
    /\ \E d \in {"None", "given"}, o \in {"None", "rbf.json"} :
          rbfArgs' = [data_training |-> d, output_filename |-> o,
                      found |-> "unset"]
    /\ pc' = [op |-> "rbf", at |-> 1]
    /\ UNCHANGED <<stdout, oldstdout, artifact, constraints, surrogate,
                   rbf_surr, solutionPickle, savedFiles, evaluated, plotArgs,
                   outcome>>
    /\ UNCHANGED samplerVars

\* Lines 152-155: sample when no training table was passed, else keep the
\* caller's table.
RbfGetData ==
    /\ At("rbf", "get_data", RbfProgram)
    /\ IF rbfArgs.data_training = "None"
       THEN GetSurrogateData
       ELSE /\ data_training' = GivenTraining
            /\ UNCHANGED <<rng, cutRule, n_samples, training_fraction, data,
                           data_validation, runLog>>
    /\ pc' = Step(RbfProgram)
    /\ UNCHANGED <<stdout, oldstdout, artifact, constraints, surrogate,
                   rbf_surr, solutionPickle, savedFiles, rbfArgs, evaluated,
                   plotArgs, outcome>>

\* Lines 163-175: PysmoRBFTrainer(...).train_surrogate().  Training writes
\* solution.pickle (or, depending on the trainer, does not); it can fail.
RbfTrain ==
    /\ At("rbf", "train", RbfProgram)
    /\ solutionPickle' \in {TRUE, solutionPickle}
    /\ \/ /\ pc' = Step(RbfProgram)
          /\ UNCHANGED outcome
       \/ /\ pc' = Idle
          /\ outcome' = Raise("training failed")
    /\ UNCHANGED <<stdout, oldstdout, artifact, constraints, surrogate,
                   rbf_surr, savedFiles, rbfArgs, evaluated, plotArgs>>
    /\ UNCHANGED samplerVars

\* os.remove(path): the file state afterwards and the error raised.
OsRemove(exists, denied) ==
    IF ~exists THEN [exists |-> FALSE, error |-> "FileNotFoundError"]
    ELSE IF denied THEN [exists |-> TRUE, error |-> "PermissionError"]
    ELSE [exists |-> FALSE, error |-> "none"]

\* A cleanup without the FileNotFoundError handler.
RemoveStrict(exists, denied) == OsRemove(exists, denied)

\* Lines 178-183: try os.remove; FileNotFoundError is passed over, any other
\* exception is re-raised.
RemoveSolutionPickle(exists, denied) ==
    LET r == OsRemove(exists, denied)
    IN  IF r.error = "FileNotFoundError" THEN [r EXCEPT !.error = "none"]
        ELSE r

RbfRemove ==
    /\ At("rbf", "remove", RbfProgram)
    /\ \E denied \in BOOLEAN :
          LET r == RemoveSolutionPickle(solutionPickle, denied)
          IN  /\ solutionPickle' = r.exists
              /\ rbfArgs' = [rbfArgs EXCEPT !.found =
                                IF solutionPickle THEN "present" ELSE "absent"]
              /\ IF r.error = "none"
                 THEN pc' = Step(RbfProgram) /\ UNCHANGED outcome
                 ELSE pc' = Idle /\ outcome' = Raise(r.error)
    /\ UNCHANGED <<stdout, oldstdout, artifact, constraints, surrogate,
                   rbf_surr, savedFiles, evaluated, plotArgs>>
    /\ UNCHANGED samplerVars

\* Lines 186-193: input_bounds and self.rbf_surr = PysmoSurrogate(...).
RbfMakeSurrogate ==
    /\ At("rbf", "make_surrogate", RbfProgram)
    /\ rbf_surr' = "rbf"
    /\ pc' = Step(RbfProgram)
    /\ UNCHANGED <<stdout, oldstdout, artifact, constraints, surrogate,
                   solutionPickle, savedFiles, rbfArgs, evaluated, plotArgs,
                   outcome>>
    /\ UNCHANGED samplerVars

\* Lines 196-197: save_to_file(output_filename, overwrite=True) when a name
\* was given; writing can fail.
RbfSave ==
    /\ At("rbf", "save", RbfProgram)
    /\ IF rbfArgs.output_filename = "None"
       THEN /\ pc' = Step(RbfProgram)
            /\ UNCHANGED <<savedFiles, outcome>>
       ELSE \/ /\ savedFiles' = savedFiles \cup {rbfArgs.output_filename}
               /\ pc' = Step(RbfProgram)
               /\ UNCHANGED outcome
            \/ /\ pc' = Idle
               /\ outcome' = Raise("save failed")
               /\ UNCHANGED savedFiles
    /\ UNCHANGED <<stdout, oldstdout, artifact, constraints, surrogate,
                   rbf_surr, solutionPickle, rbfArgs, evaluated, plotArgs>>
    /\ UNCHANGED samplerVars

\* Lines 222-228: the surrogate _plot_training_validation evaluates, given
\* its surrogate and surrogate_filename arguments: "reloaded" is the object
\* load_from_file returns, "raise" the bare Exception, and the last branch
\* takes self.surrogate.
SelectSurrogate(sArg, fArg, selfSurrogate) ==
    IF sArg = "None" /\ fArg # "None" THEN "reloaded"
    ELSE IF sArg = "None" /\ fArg = "None" THEN "raise"
    ELSE selfSurrogate

\* _plot_training_validation on a built block, with both data tables passed
\* (they do not bear on the surrogate that is chosen).
PlotTrainingValidation ==
    /\ pc = Idle
    /\ \E sArg \in {"None", "artifact", "other"},
          fArg \in {"None", "trough_surrogate.json"} :
          LET sel == SelectSurrogate(sArg, fArg, surrogate)
          IN  /\ plotArgs' = [surrogate |-> sArg, surrogate_filename |-> fArg]
              /\ IF sel = "raise" \/ (sel = "reloaded" /\ artifact # "valid")
                 THEN /\ outcome' = [op |-> "plot", result |-> "raised"]
                      /\ evaluated' = "none"
                 ELSE /\ outcome' = [op |-> "plot", result |-> "returned"]
                      /\ evaluated' = sel
    /\ UNCHANGED <<pc, stdout, oldstdout, artifact, constraints, surrogate,
                   rbf_surr, solutionPickle, savedFiles, rbfArgs>>
    /\ UNCHANGED samplerVars

(***************************************************************************)
(* LT-MED costing: units                                                   *)
(***************************************************************************)

\* A unit's dimension: the exponents (in 1e-3) of currency, length, mass and
\* time.
Dim(c, l, m, t) == [currency |-> c, length |-> l, mass |-> m, time |-> t]

DimMul(a, b) == Dim(a.currency + b.currency, a.length + b.length,
                    a.mass + b.mass, a.time + b.time)
DimDiv(a, b) == Dim(a.currency - b.currency, a.length - b.length,
                    a.mass - b.mass, a.time - b.time)
\* a ** e, with the exponent e in 1e-3 (the value of a fixed parameter).
DimPow(a, e) == Dim((a.currency * e) \div 1000, (a.length * e) \div 1000,
                    (a.mass * e) \div 1000, (a.time * e) \div 1000)

Dimensionless == Dim(0, 0, 0, 0)
Currency      == Dim(1000, 0, 0, 0)       \* costing.base_currency
Metre         == Dim(0, 1000, 0, 0)
Kilogram      == Dim(0, 0, 1000, 0)
Time          == Dim(0, 0, 0, 1000)       \* s, hr, day, year
Energy        == Dim(0, 2000, 1000, -2000)  \* kWh
Volume        == DimPow(Metre, 3000)        \* m**3
Area          == DimPow(Metre, 2000)        \* m**2
VolFlow       == DimDiv(Volume, Time)       \* m**3 / day, / hr, / year
AreaPerMassRate == DimDiv(DimMul(Area, Time), Kilogram)  \* m**2 / (kg / s)

\* pyo.units.convert(expr, to_units): the expression in to_units; it is
\* defined only when the two dimensions agree.
Convertible(d, to) == d = to
Convert(d, to) == to

\* A pyo.Var: value in 1e-3, units, lower bound ({} for None) and fixed flag.
Var(value, units, lb) ==
    [value |-> value, units |-> units, lb |-> lb, fixed |-> FALSE]

(***************************************************************************)
(* LT-MED costing: the parameter block                                     *)
(***************************************************************************)

\* The Vars of build_lt_med_surrogate_cost_param_block, in declaration order.
ParamNames ==
    <<"cost_fraction_evaporator", "cost_fraction_maintenance",
      "cost_fraction_insurance", "cost_storage_per_kwh",
      "cost_chemicals_per_vol_dist", "cost_labor_per_vol_dist",
      "cost_misc_per_vol_dist", "cost_disposal_per_vol_brine",
      "specific_electric_energy_consumption", "med_sys_A_coeff",
      "med_sys_B_coeff", "med_sys_C_coeff", "med_sys_D_coeff">>

\* The k-th declaration: initialize (in 1e-3), units and bounds.
ParamDecl(k) ==
    CASE k = 1  -> Var(400, Dimensionless, {0})
      [] k = 2  -> Var(20, Dimensionless, {0})
      [] k = 3  -> Var(5, Dimensionless, {0})
      [] k = 4  -> Var(26000, DimDiv(Currency, Energy), {0})
      [] k = 5  -> Var(40, DimDiv(Currency, Volume), {0})
      [] k = 6  -> Var(33, DimDiv(Currency, Volume), {0})
      [] k = 7  -> Var(33, DimDiv(Currency, Volume), {0})
      [] k = 8  -> Var(20, DimDiv(Currency, Volume), {0})
      [] k = 9  -> Var(1500, DimDiv(Energy, Volume), {0})
      [] k = 10 -> Var(6291000, Dimensionless, {})
      [] k = 11 -> Var(-135, Dimensionless, {})
      [] k = 12 -> Var(302010, Dimensionless, {})
      [] k = 13 -> Var(800, Dimensionless, {})

\* A fix_all_vars that fixes the bounded Vars only.
FixBoundedVars(ps) ==
    [p \in DOMAIN ps |-> [ps[p] EXCEPT !.fixed = (ps[p].lb # {})]]

\* blk.fix_all_vars(): every Var of the block is fixed at its current value.
FixAllVars(ps) == [p \in DOMAIN ps |-> [ps[p] EXCEPT !.fixed = TRUE]]

\* Var.fix(v).
Fix(var, v) == [var EXCEPT !.value = v, !.fixed = TRUE]

\* paramPc when the build has returned.
ParamsBuilt == Len(ParamNames) + 1

\* How many parameters a flowsheet re-fixes, and the values it uses (1e-3).
MaxOverrides == 2
OverrideValues == {0, 1000}

\* The costed LT-MED units of the flowsheet.
Units == {"med1", "med2"}

CostInit ==
    /\ params = Empty
    /\ paramPc = 0
    /\ overridden = {}
    /\ unitVars = Empty
    /\ unitCons = Empty
    /\ flows = {}

\* One "blk.<name> = pyo.Var(...)" of the parameter block build.
DeclareParam ==
    /\ paramPc < Len(ParamNames)
    /\ params' = Put(params, ParamNames[paramPc + 1], ParamDecl(paramPc + 1))
    /\ paramPc' = paramPc + 1
    /\ UNCHANGED <<overridden, unitVars, unitCons, flows>>

\* The last statement of the build: blk.fix_all_vars().
LockParams ==
    /\ paramPc = Len(ParamNames)
    /\ params' = FixAllVars(params)
    /\ paramPc' = ParamsBuilt
    /\ UNCHANGED <<overridden, unitVars, unitCons, flows>>

\* A flowsheet re-fixes a parameter of the built block to its own value.
OverrideParam ==
    /\ paramPc = ParamsBuilt
    /\ Cardinality(overridden) < MaxOverrides
    /\ \E p \in DOMAIN params \ overridden, v \in OverrideValues :
          /\ params' = [params EXCEPT ![p] = Fix(@, v)]
          /\ overridden' = overridden \cup {p}
    /\ UNCHANGED <<paramPc, unitVars, unitCons, flows>>

(***************************************************************************)
(* LT-MED costing: the unit costing block                                  *)
(***************************************************************************)

\* Units of the quantities the block reads from the unit model and from the
\* property package.
SpecificAreaUnits     == DimDiv(Area, VolFlow)     \* lt_med.specific_area
DensMassUnits         == DimDiv(Kilogram, Volume)  \* feed.dens_mass_phase
FlowVolUnits          == VolFlow                   \* flow_vol_phase["Liq"]
ThermalPowerUnits     == DimDiv(Energy, Time)  \* thermal_power_requirement

\* make_capital_cost_var(blk): blk.capital_cost, a non-negative Var in the
\* base currency.
MakeCapitalCostVar == Var(0, Currency, {0})

\* make_fixed_operating_cost_var(blk): blk.fixed_operating_cost, a
\* non-negative Var in base currency per year.
MakeFixedOperatingCostVar == Var(0, DimDiv(Currency, Time), {0})

\* The Vars cost_lt_med_surrogate puts on a unit's costing block.
BlockVars ==
    [n \in {"capital_cost", "fixed_operating_cost", "system_cost",
            "heat_exchanger_specific_area", "thermal_storage_capacity",
            "hours_thermal_storage"} |->
       CASE n = "capital_cost"                 -> MakeCapitalCostVar
         [] n = "fixed_operating_cost"         -> MakeFixedOperatingCostVar
         [] n = "system_cost"                  -> Var(100000, Currency, {})
         [] n = "heat_exchanger_specific_area" ->
                Var(100000, AreaPerMassRate, {})
         [] n = "thermal_storage_capacity"     -> Var(5000, Energy, {})
         [] n = "hours_thermal_storage"        -> Var(5000, Time, {})]

\* The equality constraints cost_lt_med_surrogate adds.
ConstraintNames ==
    {"heat_exchanger_specific_area_constraint",
     "thermal_storage_capacity_constraint", "system_cost_constraint",
     "capital_cost_constraint", "fixed_operating_cost_constraint"}

\* blk.capacity and blk.annual_dist_production: distillate flow converted to
\* m**3/day and m**3/year.
CapacityUnits == Convert(FlowVolUnits, VolFlow)
AnnualDistUnits == Convert(FlowVolUnits, VolFlow)

\* The unit of the left-hand side of constraint c, given the block's Vars.
LhsUnits(vs, c) ==
    CASE c = "heat_exchanger_specific_area_constraint" ->
            vs["heat_exchanger_specific_area"].units
      [] c = "thermal_storage_capacity_constraint" ->
            vs["thermal_storage_capacity"].units
      [] c = "system_cost_constraint"  -> vs["system_cost"].units
      [] c = "capital_cost_constraint" -> vs["capital_cost"].units
      [] c = "fixed_operating_cost_constraint" ->
            vs["fixed_operating_cost"].units

\* The units of the additive terms of the right-hand side of constraint c,
\* given the block's Vars vs and the parameter block ps.  A power takes the
\* value of its (fixed) exponent.
TermUnits(vs, ps, c) ==
    CASE c = "heat_exchanger_specific_area_constraint" ->
            {Convert(DimDiv(SpecificAreaUnits, DensMassUnits),
                     AreaPerMassRate)}
      [] c = "thermal_storage_capacity_constraint" ->
            {DimMul(ThermalPowerUnits, vs["hours_thermal_storage"].units)}
      [] c = "system_cost_constraint" ->
            {DimMul(DimMul(ps["med_sys_A_coeff"].units,
                           DimPow(CapacityUnits,
                                  ps["med_sys_B_coeff"].value)),
                    ps["cost_fraction_evaporator"].units),
             DimMul(ps["cost_fraction_evaporator"].units,
                    DimPow(DimDiv(vs["heat_exchanger_specific_area"].units,
                                  ps["med_sys_C_coeff"].units),
                           ps["med_sys_D_coeff"].value))}
      [] c = "capital_cost_constraint" ->
            {DimMul(vs["system_cost"].units, CapacityUnits),
             DimMul(ps["cost_storage_per_kwh"].units,
                    vs["thermal_storage_capacity"].units)}
      [] c = "fixed_operating_cost_constraint" ->
            {DimMul(AnnualDistUnits, ps["cost_chemicals_per_vol_dist"].units),
             DimMul(AnnualDistUnits, ps["cost_labor_per_vol_dist"].units),
             DimMul(AnnualDistUnits, ps["cost_misc_per_vol_dist"].units),
             DimMul(vs["system_cost"].units,
                    ps["cost_fraction_maintenance"].units),
             DimMul(vs["system_cost"].units,
                    ps["cost_fraction_insurance"].units),
             DimMul(Convert(FlowVolUnits, VolFlow),
                    ps["cost_disposal_per_vol_brine"].units)}

\* The conversions of cost_lt_med_surrogate are defined.
ConversionsDefined ==
    /\ Convertible(DimDiv(SpecificAreaUnits, DensMassUnits), AreaPerMassRate)
    /\ Convertible(FlowVolUnits, VolFlow)

\* cost_lt_med_surrogate(blk) for unit u.  The registration decorator has the
\* parameter block built (once) before the body runs.
CostLtMedSurrogate ==
    /\ paramPc = ParamsBuilt
    /\ ConversionsDefined
    /\ \E u \in Units \ DOMAIN unitVars :
          /\ unitVars' = Put(unitVars, u, BlockVars)
          /\ unitCons' = Put(unitCons, u, ConstraintNames)
          /\ flows' = flows \cup {<<u, "heat">>, <<u, "electricity">>}
    /\ UNCHANGED <<params, paramPc, overridden>>

(***************************************************************************)
(* Specifications                                                          *)
(***************************************************************************)

\* The sampler attributes of a built block that is not sampling.
SamplerRest ==
    /\ rng = 0
    /\ cutRule = "truncate"
    /\ n_samples = DefaultNSamples
    /\ training_fraction = DefaultTrainingFraction
    /\ data = <<>>
    /\ data_training = <<>>
    /\ data_validation = <<>>
    /\ runLog = <<>>

\* A built trough block on which no operation runs.
TroughRest ==
    /\ pc = Idle
    /\ stdout = "console"
    /\ oldstdout = "console"
    /\ artifact = "valid"
    /\ constraints = {"surrogate_outputs", "heat_constraint",
                      "electricity_constraint"}
    /\ surrogate = "artifact"
    /\ rbf_surr = "unset"
    /\ solutionPickle = FALSE
    /\ savedFiles = {}
    /\ rbfArgs = [data_training |-> "None", output_filename |-> "None",
                  found |-> "unset"]
    /\ evaluated = "none"
    /\ plotArgs = [surrogate |-> "None", surrogate_filename |-> "None"]
    /\ outcome = [op |-> "build", result |-> "returned"]

InitScaling == ScalingInit /\ SamplerRest /\ TroughRest /\ CostInit
NextScaling ==
    \/ UserSetScalingFactor /\ UNCHANGED <<samplerVars, troughVars, costVars>>
    \/ CalculateScalingFactors /\ UNCHANGED <<samplerVars, troughVars, costVars>>
SpecScaling == InitScaling /\ [][NextScaling]_vars

InitSampler == ScalingInit /\ SamplerInit /\ TroughRest /\ CostInit
NextSampler ==
    \/ GetSurrogateData /\ UNCHANGED <<scalingVars, troughVars, costVars>>
    \/ SetNSamples /\ UNCHANGED <<scalingVars, troughVars, costVars>>
    \/ SetTrainingFraction /\ UNCHANGED <<scalingVars, troughVars, costVars>>
SpecSampler == InitSampler /\ [][NextSampler]_vars

InitTrough == ScalingInit /\ TroughInit /\ CostInit
NextTrough ==
    \/ BuildStart /\ UNCHANGED <<scalingVars, costVars>>
    \/ Redirect /\ UNCHANGED <<scalingVars, costVars>>
    \/ Restore /\ UNCHANGED <<scalingVars, costVars>>
    \/ BuildLoad /\ UNCHANGED <<scalingVars, costVars>>
    \/ BuildAddConstraint /\ UNCHANGED <<scalingVars, costVars>>
    \/ BuildSetDefaults /\ UNCHANGED <<scalingVars, costVars>>
    \/ CreateRbfSurrogate /\ UNCHANGED <<scalingVars, costVars>>
    \/ RbfGetData /\ UNCHANGED <<scalingVars, costVars>>
    \/ RbfTrain /\ UNCHANGED <<scalingVars, costVars>>
    \/ RbfRemove /\ UNCHANGED <<scalingVars, costVars>>
    \/ RbfMakeSurrogate /\ UNCHANGED <<scalingVars, costVars>>
    \/ RbfSave /\ UNCHANGED <<scalingVars, costVars>>
    \/ PlotTrainingValidation /\ UNCHANGED <<scalingVars, costVars>>
SpecTrough == InitTrough /\ [][NextTrough]_vars

InitCost == ScalingInit /\ SamplerRest /\ TroughRest /\ CostInit
NextCost ==
    \/ DeclareParam /\ UNCHANGED <<scalingVars, samplerVars, troughVars>>
    \/ LockParams /\ UNCHANGED <<scalingVars, samplerVars, troughVars>>
    \/ OverrideParam /\ UNCHANGED <<scalingVars, samplerVars, troughVars>>
    \/ CostLtMedSurrogate /\ UNCHANGED <<scalingVars, samplerVars, troughVars>>
SpecCost == InitCost /\ [][NextCost]_vars

(***************************************************************************)
(* Claims                                                                  *)
(***************************************************************************)

\* C1: a call of calculate_scaling_factors keeps every scaling factor that
\* was set before it, gives every variable without one its default (1e-2 for
\* heat_load, 1e-4 for heat_annual), and leaves all six variables with a
\* factor.
C1_NeverOverwrites ==
    [][sfLast' = "calc" =>
         /\ \A v \in DOMAIN scaling_factor :
               /\ v \in DOMAIN scaling_factor'
               /\ scaling_factor'[v] = scaling_factor[v]
         /\ \A k \in 1..Len(ScaledVars) : ScaledVars[k] \in DOMAIN scaling_factor'
         /\ "heat_load" \notin DOMAIN scaling_factor
               => scaling_factor'["heat_load"] = 100
         /\ "heat_annual" \notin DOMAIN scaling_factor
               => scaling_factor'["heat_annual"] = 1]_vars

\* C1 witness: after a call, heat_load still has the factor a user set before
\* it (neither its default nor absent) and heat_annual has its default.
C1_Witness ==
    /\ sfLast = "calc"
    /\ DOMAIN scaling_factor = {ScaledVars[k] : k \in 1..Len(ScaledVars)}
    /\ scaling_factor["heat_load"] = 50
    /\ scaling_factor["heat_annual"] = 1
    /\ scaling_factor["hours_storage"] = 10000

\* C2: two calls of _get_surrogate_data with the same sample size and the
\* same training fraction (and so the same split seed) yield the same sample
\* and the same training/validation split.
C2_Reproducible ==
    (Len(runLog) = 2 /\ runLog[1].n = runLog[2].n /\ runLog[1].f = runLog[2].f)
       => /\ runLog[1].data = runLog[2].data
          /\ runLog[1].training = runLog[2].training
          /\ runLog[1].validation = runLog[2].validation

\* C3: every Var of a unit's costing block has a lower bound of 0.
C3_NonNegativeBounds ==
    \A u \in DOMAIN unitVars :
       \A v \in DOMAIN unitVars[u] : unitVars[u][v].lb = {0}

\* C4: once the parameter block build has returned, all 13 coefficients
\* exist, each is fixed, and each one not overridden holds its default, with
\* A = 6291, B = -0.135, C = 302.01, D = 0.8, cost_fraction_evaporator = 0.4.
C4_ParamsLocked ==
    paramPc = ParamsBuilt =>
       /\ DOMAIN params = {ParamNames[k] : k \in 1..Len(ParamNames)}
       /\ Cardinality(DOMAIN params) = 13
       /\ \A p \in DOMAIN params : params[p].fixed
       /\ \A k \in 1..Len(ParamNames) :
             ParamNames[k] \notin overridden =>
                /\ params[ParamNames[k]].value = ParamDecl(k).value
                /\ params[ParamNames[k]].units = ParamDecl(k).units
       /\ "med_sys_A_coeff" \notin overridden
             => params["med_sys_A_coeff"].value = 6291000
       /\ "med_sys_B_coeff" \notin overridden
             => params["med_sys_B_coeff"].value = -135
       /\ "med_sys_C_coeff" \notin overridden
             => params["med_sys_C_coeff"].value = 302010
       /\ "med_sys_D_coeff" \notin overridden
             => params["med_sys_D_coeff"].value = 800
       /\ "cost_fraction_evaporator" \notin overridden
             => params["cost_fraction_evaporator"].value = 400

\* C4 witness: the build has returned, nothing was overridden, and the
\* unbounded coefficient A is fixed at 6291.
C4_Witness ==
    /\ paramPc = ParamsBuilt
    /\ overridden = {}
    /\ params["med_sys_A_coeff"].fixed
    /\ params["med_sys_A_coeff"].value = 6291000

\* C5: when _create_rbf_surrogate returns, solution.pickle is absent; the
\* cleanup never fails because the file was already absent, and cleaning up
\* a second time changes nothing and raises nothing.
C5_CleanupBeforeReturn ==
    /\ (pc = Idle /\ outcome = [op |-> "rbf", result |-> "returned"])
          => ~solutionPickle
    /\ outcome.result # "FileNotFoundError"
    /\ \A denied \in BOOLEAN :
          LET once == RemoveSolutionPickle(solutionPickle, denied)
          IN  once.error = "none" =>
                 RemoveSolutionPickle(once.exists, denied) = once

\* C5 witness: _create_rbf_surrogate has returned after its cleanup found
\* solution.pickle and removed it.
C5_Witness ==
    /\ pc = Idle
    /\ outcome = [op |-> "rbf", result |-> "returned"]
    /\ rbfArgs.found = "present"
    /\ ~solutionPickle

\* C6: a build whose artifact load failed has added no constraint to the
\* block.
C6_FailFast ==
    outcome = [op |-> "build", result |-> "load failed"] => constraints = {}

\* C6 witness: build has ended with a failed load.
C6_Witness ==
    /\ pc.op = "failed"
    /\ outcome = [op |-> "build", result |-> "load failed"]
    /\ artifact # "valid"

\* C7: in every costing block, the unit of every additive right-hand term of
\* each of the five equality constraints equals the unit of its left-hand
\* variable.
C7_UnitsBalance ==
    \A u \in DOMAIN unitCons :
       \A c \in unitCons[u] :
          \A t \in TermUnits(unitVars[u], params, c) :
             t = LhsUnits(unitVars[u], c)

\* C9: whenever build or _create_rbf_surrogate has finished, by return or by
\* exception, sys.stdout is the stream it was when the operation started.
C9_StdoutRestored ==
    (pc.op \in {"idle", "failed"} /\ outcome.op \in {"build", "rbf"})
       => stdout = oldstdout

\* C10: a plot call that returns has evaluated the surrogate the caller
\* passed, or, when none was passed, the one loaded from the named file; a
\* call with neither raises.
C10_EvaluatesSelected ==
    outcome.op = "plot" =>
       /\ (plotArgs.surrogate # "None" /\ outcome.result = "returned")
             => evaluated = plotArgs.surrogate
       /\ (plotArgs.surrogate = "None" /\ outcome.result = "returned")
             => evaluated = "reloaded"
       /\ (plotArgs.surrogate = "None" /\ plotArgs.surrogate_filename = "None")
             => outcome.result = "raised"
====
